---- MODULE Spec2Model ----
(***************************************************************************)
(* Model of cf-lambda.py: the Lambda handler that reconciles two EC2       *)
(* managed prefix lists (IPv4, IPv6) with the Cloudflare address ranges.   *)
(*                                                                         *)
(* Conventions.  A CIDR string is an integer; Python's sorted() on the     *)
(* strings is the ascending order of the integers.  A value that Python    *)
(* tests for truthiness (None, "", 0, []) is "" for strings and 0 for      *)
(* numbers: every place of the source that reads such a value reads it     *)
(* through `x or default` or `if x`, which treat None and the empty value  *)
(* alike.  The Description attached to added entries is the same for every *)
(* entry of a pass and is left out of the batches.                         *)
(***************************************************************************)
EXTENDS Integers, Sequences, FiniteSets, TLC

(* ---------------- program constants ---------------- *)
MAX_BATCH == 80
\* attempts and backoff (in milliseconds) of _describe_pl_with_retries
DescribeAttempts == 8
Backoff == 500
\* records of the not-found error's preview
PreviewLimit == 20

ACCOUNT == "111111111111"
Families == {"v4", "v6"}

(* ---------------- bounds of the model ---------------- *)
\* external writes to a list while a pass runs
MaxWrites == 1
\* size of a page of get_managed_prefix_list_entries
PageSize == 100
\* entries beyond one full batch in the large inputs
Extra == 5
\* further invocations of the handler in SpecTwice
MaxReinvoke == 1
\* lists of the region beyond those the not-found preview has room for
MoreOthers == 2

(* ---------------- sequences and sets ---------------- *)
Range(s) == {s[i] : i \in DOMAIN s}

Iota(a, b) == [i \in 1..(b - a + 1) |-> a + i - 1]

Min(S) == CHOOSE x \in S : \A y \in S : x <= y

Max2(a, b) == IF a >= b THEN a ELSE b

CeilDiv(a, n) == (a + n - 1) \div n

Max(S) == CHOOSE x \in S : \A y \in S : x >= y

\* the elements of S within lo..hi in ascending order, by halving the interval
RECURSIVE SortWithin(_, _, _)
SortWithin(S, lo, hi) ==
    IF lo > hi THEN <<>>
    ELSE IF lo = hi THEN (IF lo \in S THEN <<lo>> ELSE <<>>)
    ELSE LET mid == (lo + hi) \div 2
         IN SortWithin(S, lo, mid) \o SortWithin(S, mid + 1, hi)

\* sorted(S): the elements of a finite set of integers in ascending order
sorted(S) == IF S = {} THEN <<>> ELSE SortWithin(S, Min(S), Max(S))

\* seq[:n]
Take(seq, n) == SubSeq(seq, 1, IF Len(seq) < n THEN Len(seq) ELSE n)

\* seq[n:]
Drop(seq, n) == SubSeq(seq, n + 1, Len(seq))

\* list(_chunks(seq, n))
RECURSIVE _chunks(_, _)
RECURSIVE _chunks_overlap(_, _)
_chunks_overlap(seq, n) ==
    IF seq = <<>> THEN <<>> ELSE <<Take(seq, n)>> \o _chunks_overlap(Drop(seq, n - 1), n)


_chunks(seq, n) ==
    IF seq = <<>> THEN <<>> ELSE <<Take(seq, n)>> \o _chunks(Drop(seq, n), n)


(* ---------------- state ---------------- *)
VARIABLES
    env,     \* os.getenv values and the Cloudflare feed, per address family
    aws,     \* the provider's prefix list of each family's region
    h,       \* the frame of handler
    ad,      \* the frame of apply_delta (with get_pl_entries, _modify and the locator)
    log,     \* history of the provider calls of the running apply_delta
    writes   \* external writes so far

vars == <<env, aws, h, ad, log, writes>>

(* ---------------- the provider's resources ---------------- *)
ListId == [v4 |-> "pl-4", v6 |-> "pl-6"]
ListName == [v4 |-> "cf-4", v6 |-> "cf-6"]
BadId == "pl-bad"
InitVersion == 3

\* a record of describe_managed_prefix_lists: full metadata
ManagedRec(f) ==
    [PrefixListId |-> aws[f].PrefixListId, PrefixListName |-> aws[f].PrefixListName,
     MaxEntries |-> aws[f].MaxEntries, OwnerId |-> aws[f].OwnerId,
     Version |-> aws[f].Version]

\* a record of describe_prefix_lists: id, name and Cidrs only
PrefixRec(f) ==
    [PrefixListId |-> aws[f].PrefixListId, PrefixListName |-> aws[f].PrefixListName,
     MaxEntries |-> 0, OwnerId |-> "", Version |-> 0, Cidrs |-> <<>>]

\* another list of the region, provider-owned, seen by both APIs
OtherRec ==
    [PrefixListId |-> "pl-other", PrefixListName |-> "com.amazonaws.s3",
     MaxEntries |-> 10, OwnerId |-> "AWS", Version |-> 1]

\* the same list on a later page, modified in between
OtherRecLater == [OtherRec EXCEPT !.Version = 2]

\* a record without identifier
AnonRec ==
    [PrefixListId |-> "", PrefixListName |-> "anon",
     MaxEntries |-> 0, OwnerId |-> "", Version |-> 0]

\* the n-th of the provider's own lists, as describe_prefix_lists shows it
OtherN(n) ==
    [PrefixListId |-> "pl-aws-" \o ToString(n), PrefixListName |-> "com.amazonaws",
     MaxEntries |-> 0, OwnerId |-> "", Version |-> 0, Cidrs |-> <<>>]

\* the provider's own lists of the family's region
ManyOthers(f) == [n \in 1..aws[f].Others |-> OtherN(n)]

Resp(managed, prefix) == [ManagedPrefixLists |-> managed, PrefixLists |-> prefix]

\* what describe_managed_prefix_lists(PrefixListIds=[id]) may answer; a ClientError
\* is turned into the empty answer by _describe_managed_pls
_describe_managed_pls_ids(f, id) ==
    {Resp(<<>>, <<>>)} \cup
    (IF id = aws[f].PrefixListId THEN {Resp(<<ManagedRec(f)>>, <<>>)} ELSE {})

\* the pages describe_managed_prefix_lists may answer over one listing; a
\* ClientError is turned into one empty page by _describe_managed_pls
_describe_managed_pls(f) ==
    { <<Resp(<<>>, <<>>)>>,
      <<Resp(<<OtherRec>>, <<>>), Resp(<<ManagedRec(f), OtherRecLater>>, <<>>)>> }

\* the pages describe_prefix_lists may answer over one listing
_describe_prefix_pls(f) ==
    { <<Resp(<<>>, <<>>)>>,
      <<Resp(<<>>, <<AnonRec, PrefixRec(f)>>), Resp(<<>>, <<OtherRec>> \o ManyOthers(f))>> }

(* ---------------- discovery ---------------- *)
_pls(resp) ==
    IF resp.ManagedPrefixLists # <<>> THEN resp.ManagedPrefixLists
    ELSE IF resp.PrefixLists # <<>> THEN resp.PrefixLists
    ELSE <<>>

\* the dict built from a describe_prefix_lists record
Normalize(pl) ==
    [PrefixListId |-> pl.PrefixListId, PrefixListName |-> pl.PrefixListName,
     MaxEntries |-> pl.MaxEntries, OwnerId |-> pl.OwnerId, Version |-> pl.Version]

RECURSIVE _merge_page(_, _, _)
RECURSIVE _merge_page_all(_, _, _)
_merge_page_all(acc, items, second) ==
    IF items = <<>> THEN acc
    ELSE _merge_page_all([seen |-> acc.seen \cup {Head(items).PrefixListId},
                          out |-> Append(acc.out, Head(items))],
                         Tail(items), second)

\* the for loop over one page: acc is [seen, out]
_merge_page(acc, items, second) ==
    IF items = <<>> THEN acc
    ELSE LET pl == Head(items)
             pid == pl.PrefixListId
         IN IF pid # "" /\ pid \notin acc.seen
            THEN _merge_page([seen |-> acc.seen \cup {pid},
                              out |-> Append(acc.out, IF second THEN Normalize(pl) ELSE pl)],
                             Tail(items), second)
            ELSE _merge_page(acc, Tail(items), second)

\* one while loop: the pages of one API, in order
RECURSIVE _merge_pages(_, _, _)
_merge_pages(acc, pages, second) ==
    IF pages = <<>> THEN acc
    ELSE _merge_pages(_merge_page(acc, _pls(Head(pages)), second), Tail(pages), second)

_list_all_pls(mpages, ppages) ==
    _merge_pages(_merge_pages([seen |-> {}, out |-> <<>>], mpages, FALSE), ppages, TRUE).out

\* every merged view one call of _list_all_pls may return
Listings(f) ==
    {_list_all_pls(m, p) : m \in _describe_managed_pls(f), p \in _describe_prefix_pls(f)}

\* the first record of seq with the identifier, as <<pl>>, or <<>>: lines 172-174
FirstById(seq, prefix_list_id) ==
    LET I == {i \in DOMAIN seq : prefix_list_id # "" /\ seq[i].PrefixListId = prefix_list_id}
    IN IF I = {} THEN <<>> ELSE <<seq[Min(I)]>>

\* the first record of seq with the name, as <<pl>>, or <<>>: lines 176-178
FirstByName(seq, fallback_name) ==
    LET I == {i \in DOMAIN seq : seq[i].PrefixListName = fallback_name}
    IN IF I = {} THEN <<>> ELSE <<seq[Min(I)]>>

\* None is <<>>, a found record pl is <<pl>>
_find_pl(prefix_list_id, fallback_name, direct, listA, listB) ==
    LET pls == _pls(direct)
    IN IF prefix_list_id # "" /\ pls # <<>> THEN <<pls[1]>>
       ELSE IF FirstById(listA, prefix_list_id) # <<>> THEN FirstById(listA, prefix_list_id)
       ELSE IF fallback_name # "" THEN FirstByName(listB, fallback_name)
       ELSE <<>>

\* every outcome one call of _find_pl may have
FindOutcomes(f, prefix_list_id, fallback_name) ==
    {_find_pl(prefix_list_id, fallback_name, d, la, lb) :
        d \in _describe_managed_pls_ids(f, prefix_list_id),
        la \in Listings(f), lb \in Listings(f)}


(* ---------------- frames ---------------- *)
NoKwargs == [PrefixListId |-> "", CurrentVersion |-> 0, AddEntries |-> <<>>, RemoveEntries |-> <<>>]

NoResult ==
    [id |-> "", from_version |-> 0, to_version |-> 0, added |-> <<>>, removed |-> <<>>,
     changed |-> FALSE, note |-> "", summary |-> ""]

\* apply_delta is not running; where is the step an exception was raised at
AdIdle ==
    [pc |-> "none", fam |-> "", prefix_list_id |-> "", fallback_name |-> "",
     want_list |-> <<>>, account_owner |-> "",
     i |-> 0, last_seen |-> <<>>, sleeps |-> <<>>, preview |-> <<>>, pl |-> <<>>,
     current_version |-> 0, have |-> {}, max_entries |-> 0, owner |-> "", token |-> 0,
     to_add |-> <<>>, to_remove |-> <<>>, add_batches |-> <<>>, rem_batches |-> <<>>,
     version |-> 0, ai |-> 0, ri |-> 0, kwargs |-> NoKwargs, result |-> NoResult,
     where |-> ""]

HIdle(left) ==
    [pc |-> "idle", results |-> <<>>, fams |-> <<>>, started |-> {}, error |-> "",
     out |-> <<>>, notified |-> <<>>, left |-> left, prev |-> <<>>]

LogEntry(op, id) ==
    [op |-> op, id |-> id, add |-> <<>>, rem |-> <<>>, ver |-> 0, res |-> "ok",
     ret |-> 0, att |-> 0, k |-> 0, n |-> 0]

\* an exception leaves apply_delta, and handler, which catches nothing
Raise(kind) ==
    /\ ad' = [ad EXCEPT !.pc = "raised", !.where = ad.pc]
    /\ h' = [h EXCEPT !.pc = "raised", !.error = kind]

Running == ad.pc \in {"describe", "entries", "delta", "loop", "refresh", "retry"}

(* ---------------- the provider's calls ---------------- *)
\* get_managed_prefix_list_entries(PrefixListId=id, NextToken=token): the entries
\* after the token, a page at most, and the next token (0: none); <<>> is a ClientError
GetEntries(f, id, token) ==
    IF id # aws[f].PrefixListId THEN {<<>>}
    ELSE LET rest == sorted({c \in aws[f].Entries : c > token})
             page == Take(rest, PageSize)
         IN {<<>>,
             <<[Entries |-> page,
                NextToken |-> IF Len(rest) > PageSize THEN page[Len(page)] ELSE 0]>>}

\* the entries of the list after a modify
Applied(f, kw) == (aws[f].Entries \cup Range(kw.AddEntries)) \ Range(kw.RemoveEntries)

\* modify_managed_prefix_list(**kw): "ok", a ClientError whose message names the
\* version ("conflict"), or another error ("other")
ModifyOutcomes(f, kw) ==
    IF kw.PrefixListId # aws[f].PrefixListId THEN {"other"}
    ELSE IF aws[f].OwnerId # ACCOUNT THEN {"other"}
    ELSE IF kw.CurrentVersion # aws[f].Version THEN {"conflict", "other"}
    ELSE IF Cardinality(Applied(f, kw)) > aws[f].MaxEntries THEN {"other"}
    ELSE {"ok", "other"}

\* the provider's state after the call
AwsAfter(f, kw, res) ==
    IF res = "ok"
    THEN [aws EXCEPT ![f].Entries = Applied(f, kw), ![f].Version = aws[f].Version + 1]
    ELSE aws

(* ---------------- handler ---------------- *)
Configured(f) == env.PL_ID[f] # "" \/ env.PL_NAME[f] # ""

NextTarget(f) == IF f = "v4" THEN "v6" ELSE "finish"

\* the runtime calls handler(event, context): lines 347-364
Invoke ==
    /\ h.pc = "idle"
    /\ h' = [h EXCEPT !.pc = "v4"]
    /\ UNCHANGED <<env, aws, ad, log, writes>>

\* lines 368-370 and 371-373: apply_delta is called, get_pl_entries starts the locator
CallApplyDelta(f) ==
    /\ h.pc = f /\ ad.pc = "none"
    /\ Configured(f)
    /\ ad' = [AdIdle EXCEPT !.pc = "describe", !.fam = f,
                            !.prefix_list_id = env.PL_ID[f],
                            !.fallback_name = env.PL_NAME[f],
                            !.want_list = env.cf[f],
                            !.account_owner = ACCOUNT]
    /\ h' = [h EXCEPT !.started = @ \cup {f}]
    /\ log' = <<LogEntry("describe", env.PL_ID[f])>>
    /\ UNCHANGED <<env, aws, writes>>

\* a family with neither id nor name is left out
SkipTarget(f) ==
    /\ h.pc = f /\ ad.pc = "none"
    /\ ~Configured(f)
    /\ h' = [h EXCEPT !.pc = NextTarget(f)]
    /\ UNCHANGED <<env, aws, ad, log, writes>>

\* results.append(apply_delta(...))
AppendResult ==
    /\ ad.pc = "returned"
    /\ h' = [h EXCEPT !.pc = NextTarget(ad.fam), !.results = Append(@, ad.result),
                      !.fams = Append(@, ad.fam)]
    /\ ad' = AdIdle
    /\ log' = <<>>
    /\ UNCHANGED <<env, aws, writes>>

\* lines 375-384: the summary handler returns
Summary(results) ==
    [account |-> ACCOUNT,
     counts |-> [v4 |-> Len(env.cf["v4"]), v6 |-> Len(env.cf["v6"])],
     result |-> results]

all_results(results) == results

\* line 387: [r for r in results if r and r.get("changed")]
changed_results(results) == SelectSeq(results, LAMBDA r : r.changed)

\* line 388: slack_notify and slack_webhook
SlackConfigured == env.SLACK_NOTIFY /\ env.SLACK_WEBHOOK_URL # ""

\* lines 375-395: the summary is built, notify_slack is called with the changed
\* results if Slack is configured and there are any, and the summary is returned;
\* notify_slack catches the errors of its own post
Finish ==
    /\ h.pc = "finish"
    /\ LET changed == changed_results(h.results)
       IN h' = [h EXCEPT !.pc = "returned",
                         !.out = <<Summary(h.results)>>,
                         !.notified = IF SlackConfigured /\ changed # <<>>
                                      THEN <<changed>> ELSE <<>>]
    /\ UNCHANGED <<env, aws, ad, log, writes>>


(* ---------------- _describe_pl_with_retries ---------------- *)
\* int(pl.get("Version") or 1)
VersionOf(pl) == IF pl.Version # 0 THEN pl.Version ELSE 1

\* int(pl.get("MaxEntries") or 0)
MaxEntriesOf(pl) == pl.MaxEntries

\* pl.get("OwnerId") or ""
OwnerOf(pl) == pl.OwnerId

FreshVersion_stale(fresh, version_hint) == version_hint

\* int(fresh.get("Version") or version_hint)
FreshVersion(fresh, version_hint) == IF fresh.Version # 0 THEN fresh.Version ELSE version_hint

\* get_pl_entries, lines 203-209: the locator returns on an attempt that finds the list
Located ==
    /\ ad.pc = "describe" /\ ad.i < DescribeAttempts
    /\ \E r \in FindOutcomes(ad.fam, ad.prefix_list_id, ad.fallback_name) \ {<<>>} :
          ad' = [ad EXCEPT !.pc = "entries", !.pl = r, !.i = 0, !.last_seen = <<>>, !.sleeps = <<>>,
                           !.current_version = VersionOf(r[1]),
                           !.max_entries = MaxEntriesOf(r[1]),
                           !.owner = OwnerOf(r[1]),
                           !.have = {}, !.token = 0]
    /\ UNCHANGED <<env, aws, h, log, writes>>

\* _modify, lines 287-289: the locator returns the fresh record
Refreshed ==
    /\ ad.pc = "refresh" /\ ad.i < DescribeAttempts
    /\ \E r \in FindOutcomes(ad.fam, ad.prefix_list_id, ad.fallback_name) \ {<<>>} :
          /\ ad' = [ad EXCEPT !.pc = "retry", !.i = 0, !.last_seen = <<>>, !.sleeps = <<>>,
                              !.kwargs.CurrentVersion = FreshVersion(r[1], ad.kwargs.CurrentVersion)]
          /\ log' = Append(log, [LogEntry("fresh", r[1].PrefixListId) EXCEPT
                                   !.ver = r[1].Version])
    /\ UNCHANGED <<env, aws, h, writes>>

Delay_linear(i) == Backoff * (i + 1)

\* line 189: backoff * (2 ** i), in milliseconds
Delay(i) == Backoff * (2 ^ i)

\* lines 184-189: an attempt that finds nothing, then last_seen and the sleep
DescribeMiss ==
    /\ ad.pc \in {"describe", "refresh"} /\ ad.i < DescribeAttempts
    /\ <<>> \in FindOutcomes(ad.fam, ad.prefix_list_id, ad.fallback_name)
    /\ \E seen \in Listings(ad.fam) :
          ad' = [ad EXCEPT !.i = @ + 1, !.last_seen = seen,
                           !.sleeps = Append(@, Delay(ad.i))]
    /\ UNCHANGED <<env, aws, h, log, writes>>

Preview_all(last_seen) ==
    [k \in DOMAIN last_seen |->
        [Id |-> last_seen[k].PrefixListId, Name |-> last_seen[k].PrefixListName,
         Owner |-> last_seen[k].OwnerId]]

\* lines 191-194: Id, Name and Owner of last_seen[:20]
Preview(last_seen) == Preview_all(Take(last_seen, PreviewLimit))

\* lines 190-199: the loop is over, RuntimeError with the preview
DescribeExhausted ==
    /\ ad.pc \in {"describe", "refresh"} /\ ad.i >= DescribeAttempts
    /\ ad' = [ad EXCEPT !.pc = "raised", !.where = ad.pc, !.preview = Preview(ad.last_seen)]
    /\ h' = [h EXCEPT !.pc = "raised", !.error = "NotFound"]
    /\ UNCHANGED <<env, aws, log, writes>>

(* ---------------- get_pl_entries ---------------- *)
\* one turn of the while loop, lines 210-221
GetEntriesPage ==
    /\ ad.pc = "entries"
    /\ \E resp \in GetEntries(ad.fam, ad.prefix_list_id, ad.token) :
          /\ log' = Append(log, [LogEntry("entries", ad.prefix_list_id) EXCEPT
                                   !.res = IF resp = <<>> THEN "other" ELSE "ok"])
          /\ \/ /\ resp = <<>>
                /\ Raise("ClientError")
             \/ /\ resp # <<>>
                /\ ad' = [ad EXCEPT
                            !.have = @ \cup {c \in Range(resp[1].Entries) : c # 0},
                            !.token = resp[1].NextToken,
                            !.pc = IF resp[1].NextToken # 0 THEN "entries" ELSE "delta"]
                /\ h' = h
    /\ UNCHANGED <<env, aws, writes>>

(* ---------------- apply_delta ---------------- *)
\* line 233
ForeignOwner(owner, account_owner) == owner # "" /\ owner # account_owner

CapacityExceeded_ge(want, max_entries) == max_entries # 0 /\ Cardinality(want) >= max_entries

\* line 246
CapacityExceeded(want, max_entries) == max_entries # 0 /\ Cardinality(want) > max_entries

ToAdd_all(want, have) == sorted(want)

\* line 252
ToAdd(want, have) == sorted(want \ have)

ToRemove_all(want, have) == sorted(have)

\* line 253
ToRemove(want, have) == sorted(have \ want)

\* lines 234-242
SkipResult(id, current_version) ==
    [NoResult EXCEPT !.id = id, !.from_version = current_version,
                     !.to_version = current_version, !.note = "owner"]

\* lines 256-264
UpToDateResult(id, current_version) ==
    [NoResult EXCEPT !.id = id, !.from_version = current_version,
                     !.to_version = current_version, !.summary = "up to date"]

\* lines 302-310
AppliedResult(id, current_version, version, to_add, to_remove) ==
    [id |-> id, from_version |-> current_version, to_version |-> version,
     added |-> to_add, removed |-> to_remove,
     changed |-> (to_add # <<>> \/ to_remove # <<>>), note |-> "", summary |-> "applied"]

\* lines 233-272
Delta ==
    /\ ad.pc = "delta"
    /\ LET want == Range(ad.want_list)
           to_add == ToAdd(want, ad.have)
           to_remove == ToRemove(want, ad.have)
       IN IF ForeignOwner(ad.owner, ad.account_owner)
          THEN /\ ad' = [ad EXCEPT !.pc = "returned",
                                   !.result = SkipResult(ad.prefix_list_id, ad.current_version)]
               /\ h' = h
          ELSE IF CapacityExceeded(want, ad.max_entries)
          THEN Raise("CapacityExceeded")
          ELSE IF to_add = <<>> /\ to_remove = <<>>
          THEN /\ ad' = [ad EXCEPT !.pc = "returned",
                                   !.result = UpToDateResult(ad.prefix_list_id, ad.current_version)]
               /\ h' = h
          ELSE /\ ad' = [ad EXCEPT !.pc = "loop",
                                   !.to_add = to_add, !.to_remove = to_remove,
                                   !.add_batches = _chunks(to_add, MAX_BATCH),
                                   !.rem_batches = _chunks(to_remove, MAX_BATCH),
                                   !.version = ad.current_version,
                                   !.ai = 0, !.ri = 0]
               /\ h' = h
    /\ UNCHANGED <<env, aws, log, writes>>

BatchAt_first(batches, idx) == IF idx < Len(batches) THEN batches[1] ELSE <<>>

\* lines 296-297: batches[idx] if idx < len(batches) else None
BatchAt(batches, idx) == IF idx < Len(batches) THEN batches[idx + 1] ELSE <<>>

Kwargs_add_only(prefix_list_id, add_batch, rem_batch, version_hint) ==
    [PrefixListId |-> prefix_list_id, CurrentVersion |-> version_hint,
     AddEntries |-> add_batch, RemoveEntries |-> <<>>]

\* lines 275-279
Kwargs(prefix_list_id, add_batch, rem_batch, version_hint) ==
    [PrefixListId |-> prefix_list_id, CurrentVersion |-> version_hint,
     AddEntries |-> add_batch, RemoveEntries |-> rem_batch]

Advance_skip(idx, batches) == IF idx < Len(batches) THEN idx + 2 ELSE idx

\* lines 299-300
Advance(idx, batches) == IF idx < Len(batches) THEN idx + 1 ELSE idx

\* line 295
MoreBatches == ad.ai < Len(ad.add_batches) \/ ad.ri < Len(ad.rem_batches)

ModifyEntry(kw, res, att) ==
    [op |-> "modify", id |-> kw.PrefixListId, add |-> kw.AddEntries,
     rem |-> kw.RemoveEntries, ver |-> kw.CurrentVersion, res |-> res,
     ret |-> IF res = "ok" THEN aws[ad.fam].Version + 1 ELSE 0,
     att |-> att, k |-> Max2(ad.ai, ad.ri) + 1,
     n |-> Cardinality(AwsAfter(ad.fam, kw, res)[ad.fam].Entries)]

AfterModify_keep(v) ==
    [ad EXCEPT !.pc = "loop", !.kwargs = NoKwargs,
               !.ai = Advance(ad.ai, ad.add_batches),
               !.ri = Advance(ad.ri, ad.rem_batches)]

\* the frame after _modify returned version v: lines 298-300
AfterModify(v) ==
    [ad EXCEPT !.pc = "loop", !.version = v, !.kwargs = NoKwargs,
               !.ai = Advance(ad.ai, ad.add_batches),
               !.ri = Advance(ad.ri, ad.rem_batches)]

IsVersionConflict_any(res) == res # "ok"

\* line 285: "CurrentVersion" in msg or "version" in msg.lower()
IsVersionConflict(res) == res = "conflict"

\* lines 295-298 with _modify's first call, lines 275-286
ModifyFirst ==
    /\ ad.pc = "loop" /\ MoreBatches
    /\ LET kw == Kwargs(ad.prefix_list_id, BatchAt(ad.add_batches, ad.ai),
                        BatchAt(ad.rem_batches, ad.ri), ad.version)
       IN \E res \in ModifyOutcomes(ad.fam, kw) :
             /\ aws' = AwsAfter(ad.fam, kw, res)
             /\ \/ /\ res = "ok"
                   /\ ad' = AfterModify(aws'[ad.fam].Version)
                   /\ h' = h
                   /\ log' = Append(log, ModifyEntry(kw, res, 1))
                \/ /\ res # "ok" /\ IsVersionConflict(res)
                   /\ ad' = [ad EXCEPT !.pc = "refresh", !.kwargs = kw,
                                       !.i = 0, !.last_seen = <<>>]
                   /\ h' = h
                   /\ log' = log \o <<ModifyEntry(kw, res, 1),
                                      LogEntry("describe", ad.prefix_list_id)>>
                \/ /\ res # "ok" /\ ~IsVersionConflict(res)
                   /\ Raise("ClientError")
                   /\ log' = Append(log, ModifyEntry(kw, res, 1))
    /\ UNCHANGED <<env, writes>>

\* _modify's second call, lines 290-291
ModifyRetry ==
    /\ ad.pc = "retry"
    /\ \E res \in ModifyOutcomes(ad.fam, ad.kwargs) :
          /\ aws' = AwsAfter(ad.fam, ad.kwargs, res)
          /\ log' = Append(log, ModifyEntry(ad.kwargs, res, 2))
          /\ \/ /\ res = "ok"
                /\ ad' = AfterModify(aws'[ad.fam].Version)
                /\ h' = h
             \/ /\ res # "ok"
                /\ Raise("ClientError")
    /\ UNCHANGED <<env, writes>>

\* lines 302-310
ReturnResult ==
    /\ ad.pc = "loop" /\ ~MoreBatches
    /\ ad' = [ad EXCEPT !.pc = "returned",
                        !.result = AppliedResult(ad.prefix_list_id, ad.current_version,
                                                 ad.version, ad.to_add, ad.to_remove)]
    /\ UNCHANGED <<env, aws, h, log, writes>>

(* ---------------- the environment ---------------- *)
WriterCidrs == {2}

\* another writer adds or removes an entry of the list being reconciled
ExternalWrite ==
    /\ Running /\ writes < MaxWrites
    /\ \E c \in WriterCidrs :
          LET f == ad.fam
              new == IF c \in aws[f].Entries THEN aws[f].Entries \ {c}
                     ELSE aws[f].Entries \cup {c}
          IN /\ Cardinality(new) <= aws[f].MaxEntries
             /\ aws' = [aws EXCEPT ![f].Entries = new, ![f].Version = @ + 1]
    /\ writes' = writes + 1
    /\ UNCHANGED <<env, h, ad, log>>

\* the runtime calls handler again
Reinvoke ==
    /\ h.pc \in {"returned", "raised"} /\ h.left > 0
    /\ h' = [HIdle(h.left - 1) EXCEPT !.prev = <<[pc |-> h.pc, results |-> h.results, fams |-> h.fams]>>]
    /\ ad' = AdIdle
    /\ log' = <<>>
    /\ UNCHANGED <<env, aws, writes>>


(* ---------------- initial states ---------------- *)
\* the ways a family is configured: PL_Vx_ID and PL_Vx_NAME
Configs(f) ==
    { [id |-> ListId[f], name |-> ""], [id |-> "", name |-> ListName[f]],
      [id |-> ListId[f], name |-> ListName[f]], [id |-> BadId, name |-> ListName[f]],
      [id |-> "", name |-> ""] }

Owners == {ACCOUNT, "AWS"}

Datum(entries, maxEntries, feed) == [Entries |-> entries, MaxEntries |-> maxEntries, cf |-> feed]

\* small lists and feeds: empty, equal, overlapping, with duplicates, over capacity
SmallData ==
    { Datum({}, 2, <<>>), Datum({2, 3}, 2, <<3, 2>>), Datum({2, 3}, 3, <<2, 1, 2>>),
      Datum({2, 3}, 2, <<3, 2, 1>>), Datum({}, 3, <<3, 2, 1>>), Datum({2, 3}, 2, <<>>),
      Datum({}, 2, <<2, 1, 2>>) }

BigFeed == Iota(1, MAX_BATCH + Extra)
HugeFeed == Iota(1, 2 * MAX_BATCH + 1)
BigEntries == Range(Iota(MAX_BATCH + Extra + 1, 3 * MAX_BATCH + Extra + 1))
BigMax == 3 * MAX_BATCH + Extra

BigData ==
    { Datum({}, BigMax, BigFeed), Datum(BigEntries, BigMax, BigFeed),
      Datum({1}, BigMax, HugeFeed) }

TinyData == {Datum({}, 2, <<1>>)}

TwiceData ==
    { Datum({2, 3}, 3, <<2, 1, 2>>), Datum({}, 3, <<3, 2, 1>>), Datum({2, 3}, 2, <<3, 2>>) }

Unconfigured == [id |-> "", name |-> ""]

\* SLACK_NOTIFY and SLACK_WEBHOOK_URL
SlackOn == [notify |-> TRUE, webhook |-> "https://hooks.example/T"]
SlackConfigs == {[notify |-> n, webhook |-> w] : n \in BOOLEAN, w \in {"", SlackOn.webhook}}

\* the initial states of one family: an unconfigured family has no data of interest
Targets(f, C, O, D) ==
    {[c |-> c, o |-> o, d |-> d] : c \in C \ {Unconfigured}, o \in O, d \in D}
    \cup (IF Unconfigured \in C
          THEN {[c |-> Unconfigured, o |-> ACCOUNT, d |-> Datum({}, 2, <<>>)]} ELSE {})

InitWith(T4, T6, S, others, left) ==
    /\ \E t4 \in T4, t6 \in T6, s \in S :
          /\ env = [PL_ID |-> [v4 |-> t4.c.id, v6 |-> t6.c.id],
                    PL_NAME |-> [v4 |-> t4.c.name, v6 |-> t6.c.name],
                    cf |-> [v4 |-> t4.d.cf, v6 |-> t6.d.cf],
                    SLACK_NOTIFY |-> s.notify, SLACK_WEBHOOK_URL |-> s.webhook]
          /\ aws = [f \in Families |->
                      LET t == IF f = "v4" THEN t4 ELSE t6
                      IN [PrefixListId |-> ListId[f], PrefixListName |-> ListName[f],
                          OwnerId |-> t.o, MaxEntries |-> t.d.MaxEntries,
                          Version |-> InitVersion, Entries |-> t.d.Entries,
                          Others |-> others]]
    /\ h = HIdle(left)
    /\ ad = AdIdle
    /\ log = <<>>
    /\ writes = 0

IdOnly(f) == [id |-> ListId[f], name |-> ""]

\* one invocation, small lists, every configuration
Init ==
    InitWith(Targets("v4", Configs("v4"), Owners, SmallData),
             Targets("v6", {IdOnly("v6"), Unconfigured}, {ACCOUNT}, TinyData),
             {SlackOn}, 0, 0)

\* one invocation, lists and feeds of several batches
InitBatch ==
    InitWith(Targets("v4", {IdOnly("v4")}, {ACCOUNT}, BigData),
             Targets("v6", {Unconfigured}, {ACCOUNT}, TinyData),
             {SlackOn}, 0, 0)

\* the handler is invoked again on the lists the first invocation left
InitTwice ==
    InitWith(Targets("v4", {Unconfigured}, {ACCOUNT}, TinyData),
             Targets("v6", {IdOnly("v6"), [id |-> ListId["v6"], name |-> ListName["v6"]]},
                     Owners, TwiceData),
             {SlackOn}, 0, MaxReinvoke)

NotifyData ==
    { Datum({2, 3}, 2, <<3, 2>>), Datum({2, 3}, 3, <<2, 1, 2>>), Datum({}, 3, <<3, 2, 1>>) }

\* one invocation, small lists, every Slack configuration
InitNotify ==
    InitWith(Targets("v4", {IdOnly("v4")}, Owners, NotifyData),
             Targets("v6", {IdOnly("v6"), Unconfigured}, {ACCOUNT}, TinyData),
             SlackConfigs, 0, 0)

LocateData == {Datum({2, 3}, 3, <<2, 1, 2>>)}

\* one invocation in a region with more lists than the not-found preview holds
InitLocate ==
    InitWith(Targets("v4", Configs("v4"), {ACCOUNT}, LocateData),
             Targets("v6", {Unconfigured}, {ACCOUNT}, TinyData),
             {SlackOn}, PreviewLimit + MoreOthers, 0)

Next ==
    \/ Invoke
    \/ \E f \in Families : CallApplyDelta(f)
    \/ \E f \in Families : SkipTarget(f)
    \/ Located
    \/ Refreshed
    \/ DescribeMiss
    \/ DescribeExhausted
    \/ GetEntriesPage
    \/ Delta
    \/ ModifyFirst
    \/ ModifyRetry
    \/ ReturnResult
    \/ AppendResult
    \/ Finish
    \/ ExternalWrite

NextTwice == Next \/ Reinvoke

Spec == Init /\ [][Next]_vars

SpecBatch == InitBatch /\ [][Next]_vars

SpecTwice == InitTwice /\ [][NextTwice]_vars

SpecNotify == InitNotify /\ [][Next]_vars

SpecLocate == InitLocate /\ [][Next]_vars


(* ---------------- properties ---------------- *)
ModIdx == {i \in DOMAIN log : log[i].op = "modify"}
EntryIdx == {i \in DOMAIN log : log[i].op = "entries"}
Want == Range(ad.want_list)
\* apply_delta got past the ownership guard and the capacity check with a delta
InLoop == ad.pc \in {"loop", "refresh", "retry"} \/ (ad.pc = "raised" /\ ad.where \in {"loop", "refresh", "retry"})
Applying == InLoop \/ (ad.pc = "returned" /\ ad.result.summary = "applied")

C2_Ipv6AttemptedAfterIpv4Failure ==
    (h.pc \in {"returned", "raised"} /\ Configured("v4") /\ Configured("v6"))
        => "v6" \in h.started

\* C3: no modify call is issued against a list whose owner differs from the
\* caller's account.
C3_NoModifyOnForeignList ==
    \A i \in ModIdx : aws[ad.fam].OwnerId = ad.account_owner

\* C4 as claimed: a pass with |D| > maxEntries > 0 that located the list and read
\* its entries fails with the capacity error.
C4_AlwaysCapacityError ==
    ((ad.pc = "returned" \/ (ad.pc = "raised" /\ ad.where = "delta"))
       /\ ad.max_entries # 0 /\ Cardinality(Want) > ad.max_entries)
        => h.error = "CapacityExceeded"

\* C4 (amended): for |D| > maxEntries > 0 (duplicates collapsed, maxEntries as the
\* located record gives it) no modify call is issued, and a pass that has read the
\* entries and is not skipped by the ownership guard fails with the capacity
\* error; the capacity error is raised in no other case, so never for maxEntries 0.
C4_CapacityChecked ==
    LET over == ad.max_entries # 0 /\ Cardinality(Want) > ad.max_entries
        decided == ad.pc \in {"loop", "refresh", "retry", "returned"}
                   \/ (ad.pc = "raised" /\ ad.where # "describe" /\ ad.where # "entries")
    IN /\ (ad.pl # <<>> /\ over) => ModIdx = {}
       /\ (decided /\ over /\ ~(ad.owner # "" /\ ad.owner # ad.account_owner))
             => (ad.pc = "raised" /\ ad.where = "delta" /\ h.error = "CapacityExceeded")
       /\ h.error = "CapacityExceeded" => (h.pc = "raised" /\ over)

\* C4 witness: a feed of 3 distinct ranges for a list of at most 2 raised the error
C4_Witness ==
    /\ h.error = "CapacityExceeded" /\ ad.max_entries = 2 /\ Cardinality(Want) = 3

\* C5: the delta computed from the desired set D and the entries C read from the
\* list is toAdd = D \ C and toRemove = C \ D, each range once, so that toAdd and
\* toRemove are disjoint, toAdd is disjoint from C and toRemove is within C.
C5_DeltaIsSetDifference ==
    Applying =>
       /\ Range(ad.to_add) = Want \ ad.have
       /\ Range(ad.to_remove) = ad.have \ Want
       /\ Len(ad.to_add) = Cardinality(Range(ad.to_add))
       /\ Len(ad.to_remove) = Cardinality(Range(ad.to_remove))
       /\ Range(ad.to_add) \cap Range(ad.to_remove) = {}
       /\ Range(ad.to_add) \cap ad.have = {}
       /\ Range(ad.to_remove) \subseteq ad.have

\* C5 witness: a delta with something to add and something to remove
C5_Witness ==
    Applying /\ ad.to_add # <<>> /\ ad.to_remove # <<>> /\ Want \cap ad.have # {}


OkIdx == {i \in ModIdx : log[i].res = "ok"}
OkBefore(i) == {j \in OkIdx : j < i}

\* the k-th batch of seq: seq[(k-1)*MAX_BATCH : k*MAX_BATCH]
Slice(seq, k) ==
    SubSeq(seq, (k - 1) * MAX_BATCH + 1,
           IF k * MAX_BATCH < Len(seq) THEN k * MAX_BATCH ELSE Len(seq))

\* C6: toAdd and toRemove are cut independently into consecutive batches of at
\* most MAX_BATCH entries; the k-th update call carries the k-th add-batch and
\* the k-th remove-batch (each if any); without failed calls the number of calls
\* is max(ceil(|toAdd|/MAX_BATCH), ceil(|toRemove|/MAX_BATCH)), in the order 1, 2, ...
C6_BatchesPairedByIndex ==
    /\ \A i \in ModIdx :
          /\ Len(log[i].add) <= MAX_BATCH /\ Len(log[i].rem) <= MAX_BATCH
          /\ log[i].add = Slice(ad.to_add, log[i].k)
          /\ log[i].rem = Slice(ad.to_remove, log[i].k)
          /\ log[i].add # <<>> \/ log[i].rem # <<>>
    /\ (ad.pc = "returned" /\ ad.result.summary = "applied" /\ OkIdx = ModIdx) =>
          LET n == Max2(CeilDiv(Len(ad.to_add), MAX_BATCH), CeilDiv(Len(ad.to_remove), MAX_BATCH))
              mods == SelectSeq(log, LAMBDA e : e.op = "modify")
          IN /\ Len(mods) = n
             /\ \A k \in 1..n : mods[k].k = k

\* C6 witness: MAX_BATCH + Extra entries to add and none to remove were applied
\* in two calls, of MAX_BATCH and then Extra entries
C6_Witness ==
    /\ ad.pc = "returned" /\ ad.result.changed
    /\ Len(ad.to_add) = MAX_BATCH + Extra /\ ad.to_remove = <<>>
    /\ LET mods == SelectSeq(log, LAMBDA e : e.op = "modify")
       IN /\ Len(mods) = 2
          /\ Len(mods[1].add) = MAX_BATCH /\ Len(mods[2].add) = Extra
          /\ mods[1].res = "ok" /\ mods[2].res = "ok"
          /\ mods[2].ver = mods[1].ret

\* C7: the batches of a target are applied one after another: the first update
\* call carries the version read at the start of the pass, the first attempt of
\* each later call carries the version the previous successful call returned, a
\* call is issued only after the call of the previous batch succeeded, and the
\* result's to_version is the version the last successful call returned.
C7_VersionChained ==
    /\ \A i \in ModIdx :
          /\ log[i].att = 1 =>
                log[i].ver = IF OkBefore(i) = {} THEN ad.current_version
                             ELSE log[Max(OkBefore(i))].ret
          /\ log[i].k > 1 =>
                (OkBefore(i) # {} /\ log[Max(OkBefore(i))].k = log[i].k - 1)
          /\ log[i].k = 1 => OkBefore(i) = {}
    /\ Applying =>
          ad.current_version = IF ad.pl[1].Version # 0 THEN ad.pl[1].Version ELSE 1
    /\ (ad.pc = "returned" /\ ad.result.summary = "applied") =>
          /\ ad.result.from_version = ad.current_version
          /\ OkIdx # {}
          /\ ad.result.to_version = log[Max(OkIdx)].ret

\* C7 witness: three calls were applied, the second one on its second attempt
C7_Witness ==
    /\ ad.pc = "returned" /\ ad.result.summary = "applied"
    /\ Cardinality(OkIdx) = 3
    /\ \E i \in OkIdx : log[i].att = 2 /\ log[i].k = 2
    /\ ad.result.to_version > ad.result.from_version + 3

\* C8: when the entries read from the list are exactly the desired set, no modify
\* call is issued and the result has changed = FALSE, nothing added or removed and
\* to_version = from_version; and when the handler is invoked again with the same
\* feed and no other writer, each target that returned a result in the previous
\* invocation has changed = FALSE in this one.
C8_Idempotent ==
    /\ (ad.pc = "returned" /\ ad.have = Want) =>
          /\ ad.result.changed = FALSE
          /\ ad.result.added = <<>> /\ ad.result.removed = <<>>
          /\ ad.result.to_version = ad.result.from_version
          /\ ModIdx = {}
    /\ (h.prev # <<>> /\ writes = 0) =>
          \A j \in DOMAIN h.results :
             h.fams[j] \in Range(h.prev[1].fams) => h.results[j].changed = FALSE

\* C8 witness: the previous invocation changed the list, this one found it up to date
C8_Witness ==
    /\ h.prev # <<>> /\ writes = 0
    /\ \E j \in DOMAIN h.results, i \in DOMAIN h.prev[1].results :
          /\ h.prev[1].fams[i] = h.fams[j]
          /\ h.prev[1].results[i].changed
          /\ h.results[j].changed = FALSE /\ h.results[j].summary = "up to date"

\* C9: when the located record's owner is present and differs from the caller's
\* account, the pass issues no read of the list's entries.
C9_NoEntryReadForForeignOwner ==
    (ad.pl # <<>> /\ ad.owner # "" /\ ad.owner # ad.account_owner) => EntryIdx = {}

\* C10: when an update call fails after earlier batches were applied, no further
\* call is issued and the version returned by the last successful call is
\* reported for that target.
C10_LastVersionReported ==
    (ad.pc = "raised" /\ ad.where \in {"loop", "retry"} /\ OkIdx # {}) =>
       /\ Max(ModIdx) = Len(log)
       /\ \E j \in DOMAIN h.results :
             h.fams[j] = ad.fam /\ h.results[j].to_version = log[Max(OkIdx)].ret

\* the targets the handler's configuration names
ConfiguredFams == {f \in Families : Configured(f)}
Ended == h.pc \in {"returned", "raised"}

\* C11: every run of handler ends by returning the summary, which holds one entry
\* per configured target, also when a target failed.
C11_SummaryAlwaysProduced ==
    Ended => (h.out # <<>> /\ Len(h.out[1].result) = Cardinality(ConfiguredFams))

Locating == ad.pc \in {"describe", "refresh"}
NotFound == ad.pc = "raised" /\ h.error = "NotFound"

\* C12: the locator makes at most DescribeAttempts (8) attempts; an attempt that
\* finds a record returns it at once; after the unsuccessful attempt number k
\* (k = 1, 2, ...) it has slept 500 ms * 2^(k-1), that is 0.5, 1, 2, 4, ... s; and
\* only after DescribeAttempts unsuccessful attempts it raises the not-found
\* error, whose preview is Id, Name and Owner of the first records, 20 at most,
\* of the last listing.
C12_LocatorStep ==
    /\ (Locating /\ ad'.pc \in {"describe", "refresh"} /\ ad' # ad) =>
          /\ ad.i < 8 /\ ad'.i = ad.i + 1 /\ ad'.pc = ad.pc
          /\ Len(ad'.sleeps) = ad'.i
          /\ ad'.sleeps[1] = 500
          /\ \A k \in 2..ad'.i : ad'.sleeps[k] = 2 * ad'.sleeps[k - 1]
    /\ (Locating /\ ad'.pc \in {"entries", "retry"}) =>
          /\ ad.i < 8
          /\ \E r \in FindOutcomes(ad.fam, ad.prefix_list_id, ad.fallback_name) :
                r # <<>> /\ (ad'.pc = "entries" => ad'.pl = r)
          /\ ad'.sleeps = <<>> /\ ad'.i = 0
    /\ (Locating /\ ad'.pc = "raised") =>
          /\ ad.i = 8 /\ Len(ad.sleeps) = 8 /\ ad.sleeps[8] = 64000
          /\ h'.error = "NotFound"
          /\ Len(ad'.preview) <= 20
          /\ Len(ad'.preview) = IF Len(ad.last_seen) < 20 THEN Len(ad.last_seen) ELSE 20
          /\ \A k \in DOMAIN ad'.preview :
                /\ ad'.preview[k].Id = ad.last_seen[k].PrefixListId
                /\ ad'.preview[k].Name = ad.last_seen[k].PrefixListName
                /\ ad'.preview[k].Owner = ad.last_seen[k].OwnerId
    /\ (~Locating /\ ad'.pc = "raised") => h'.error # "NotFound"

C12_LocatorTerminates == [][C12_LocatorStep]_vars

\* C12 witness: the eighth attempt missed while more than 20 lists were visible,
\* and the error shows the first 20 of them
C12_Witness ==
    /\ NotFound /\ ad.i = 8
    /\ Len(ad.last_seen) > 20 /\ Len(ad.preview) = 20

\* the records of the pages of one API, in the order they were answered
RECURSIVE Records(_)
Records(pages) == IF pages = <<>> THEN <<>> ELSE _pls(Head(pages)) \o Records(Tail(pages))

SameData(a, b) ==
    /\ a.PrefixListId = b.PrefixListId /\ a.PrefixListName = b.PrefixListName
    /\ a.MaxEntries = b.MaxEntries /\ a.OwnerId = b.OwnerId /\ a.Version = b.Version

MergedViewOf(m, p) ==
    LET all == Records(m) \o Records(p)
        ids == {all[j].PrefixListId : j \in DOMAIN all} \ {""}
        out == _list_all_pls(m, p)
    IN /\ Len(out) = Cardinality(ids)
       /\ {out[k].PrefixListId : k \in DOMAIN out} = ids
       /\ \A k \in DOMAIN out :
             LET first == Min({j \in DOMAIN all : all[j].PrefixListId = out[k].PrefixListId})
             IN SameData(out[k], all[first])
       /\ \A k, l \in DOMAIN out :
             k < l => Min({j \in DOMAIN all : all[j].PrefixListId = out[k].PrefixListId})
                      < Min({j \in DOMAIN all : all[j].PrefixListId = out[l].PrefixListId})

\* C13: whatever pages the two discovery APIs answer, the merged view holds one
\* record per non-empty identifier occurring on any page, and no other; the
\* record of an identifier carries the data of its first occurrence, the pages
\* of describe_managed_prefix_lists coming before those of describe_prefix_lists;
\* and a listing the locator keeps is such a view.
C13_MergedViewDedups ==
    /\ \A f \in Families :
          \A m \in _describe_managed_pls(f), p \in _describe_prefix_pls(f) : MergedViewOf(m, p)
    /\ Locating =>
          \A k, l \in DOMAIN ad.last_seen :
             /\ ad.last_seen[k].PrefixListId # ""
             /\ k # l => ad.last_seen[k].PrefixListId # ad.last_seen[l].PrefixListId

\* C13 witness: the locator keeps a view merged from pages where the list is
\* shown by both APIs (the record with the metadata was kept), another list
\* twice by one API (its first version was kept), and a record has no identifier
C13_Witness ==
    /\ Locating /\ Len(ad.last_seen) = 2 + aws[ad.fam].Others
    /\ aws[ad.fam].Others > 0
    /\ \E m \in _describe_managed_pls(ad.fam), p \in _describe_prefix_pls(ad.fam) :
          /\ ad.last_seen = _list_all_pls(m, p)
          /\ \E i, j \in DOMAIN Records(p) :
                Records(p)[i].PrefixListId = "" /\ Records(p)[j] = PrefixRec(ad.fam)
          /\ \E i \in DOMAIN Records(m) : Records(m)[i] = OtherRecLater
    /\ \E k \in DOMAIN ad.last_seen : ad.last_seen[k] = ManagedRec(ad.fam)
    /\ \E k \in DOMAIN ad.last_seen : ad.last_seen[k] = OtherRec

\* C14: notify_slack is called only by a handler that returns its summary with at
\* least one result having changed = TRUE, and it is given the results with
\* changed = TRUE, in their order, and no other; when no result has changed = TRUE
\* (up to date, skipped, or no target) it is not called.
C14_NotifyOnlyOnChange ==
    /\ h.notified # <<>> =>
          /\ h.pc = "returned"
          /\ \E j \in DOMAIN h.results : h.results[j].changed
          /\ \A k \in DOMAIN h.notified[1] : h.notified[1][k].changed
          /\ \A k \in DOMAIN h.notified[1] :
                \E j \in DOMAIN h.results : h.results[j] = h.notified[1][k]
          /\ Len(h.notified[1]) = Cardinality({j \in DOMAIN h.results : h.results[j].changed})
    /\ (h.pc = "returned" /\ \A j \in DOMAIN h.results : ~h.results[j].changed) =>
          h.notified = <<>>

\* C14 witness: of two results one is up to date and one changed; the
\* notification carries the changed one alone
C14_Witness ==
    /\ h.pc = "returned" /\ Len(h.results) = 2
    /\ h.results[1].summary = "up to date" /\ h.results[2].changed
    /\ h.notified = <<(<<h.results[2]>>)>>

\* C15: a modify call rejected with an error that is not a version conflict is
\* the last provider call of the pass: no listing or re-fetch and no modify call
\* follows, the batches after it stay unsubmitted, and the error leaves
\* apply_delta; when it was the first attempt of its batch it is the only one.
C15_OtherErrorNotRetried ==
    \A i \in ModIdx :
       log[i].res = "other" =>
          /\ i = Len(log)
          /\ \A j \in ModIdx : log[j].k <= log[i].k
          /\ ad.pc = "raised" /\ h.error = "ClientError"
          /\ Max2(ad.ai, ad.ri) = log[i].k - 1
          /\ log[i].att = 1 =>
                /\ Cardinality({j \in ModIdx : log[j].k = log[i].k}) = 1
                /\ ad.where = "loop"

\* C15 witness: the second of three calls failed on its first attempt
C15_Witness ==
    /\ ad.pc = "raised" /\ ad.where = "loop"
    /\ Max2(Len(ad.add_batches), Len(ad.rem_batches)) = 3
    /\ log[Len(log)].op = "modify" /\ log[Len(log)].res = "other"
    /\ log[Len(log)].att = 1 /\ log[Len(log)].k = 2

\* every element of seq lies in exactly one of the batches, once
Partitions(batches, seq) ==
    /\ \A b \in DOMAIN batches :
          /\ batches[b] # <<>>
          /\ Len(batches[b]) = Cardinality(Range(batches[b]))
          /\ Range(batches[b]) \subseteq Range(seq)
    /\ \A c \in Range(seq) :
          Cardinality({b \in DOMAIN batches : c \in Range(batches[b])}) = 1

\* C16: the add-batches partition toAdd and the remove-batches partition
\* toRemove; the k-th update call submits the k-th add-batch and the k-th
\* remove-batch and nothing else, so only ranges of the delta; two calls that
\* submit a common range as an add are the two attempts of one batch.
C16_BatchesPartitionDelta ==
    /\ Applying =>
          /\ Partitions(ad.add_batches, ad.to_add)
          /\ Partitions(ad.rem_batches, ad.to_remove)
    /\ \A i \in ModIdx :
          /\ log[i].add = (IF log[i].k <= Len(ad.add_batches)
                           THEN ad.add_batches[log[i].k] ELSE <<>>)
          /\ log[i].rem = (IF log[i].k <= Len(ad.rem_batches)
                           THEN ad.rem_batches[log[i].k] ELSE <<>>)
          /\ Range(log[i].add) \subseteq Want \ ad.have
          /\ Range(log[i].rem) \subseteq ad.have \ Want
    /\ \A i, j \in ModIdx :
          (i < j /\ Range(log[i].add) \cap Range(log[j].add) # {}) =>
             /\ log[i].k = log[j].k /\ log[i].add = log[j].add
             /\ log[i].att = 1 /\ log[i].res = "conflict" /\ log[j].att = 2
    /\ (ad.pc = "returned" /\ ad.result.summary = "applied") =>
          /\ \A c \in Range(ad.to_add) :
                \E i \in OkIdx : c \in Range(log[i].add)
          /\ \A c \in Range(ad.to_remove) :
                \E i \in OkIdx : c \in Range(log[i].rem)

\* C16 witness: a delta of two add-batches and three remove-batches was applied,
\* one batch on its second attempt
C16_Witness ==
    /\ ad.pc = "returned" /\ ad.result.summary = "applied"
    /\ Len(ad.add_batches) = 2 /\ Len(ad.rem_batches) = 3
    /\ \E i \in OkIdx : log[i].att = 2 /\ log[i].add # <<>>

\* C17: every read of entries and every modify call of a pass carries the
\* identifier of the record the locator returned, and so does the result's id.
C17_CallsAddressLocatedList ==
    ad.pl # <<>> =>
       /\ \A i \in DOMAIN log :
             log[i].op \in {"entries", "modify"} => log[i].id = ad.pl[1].PrefixListId
       /\ ad.pc = "returned" => ad.result.id = ad.pl[1].PrefixListId

\* C18: when apply_delta returns its result for a list owned by the caller's
\* account and no other writer touched the list during the pass, the entries of
\* the list are exactly the desired set.
C18_Converges ==
    (ad.pc = "returned" /\ aws[ad.fam].OwnerId = ad.account_owner /\ writes = 0)
        => aws[ad.fam].Entries = Want

\* C18 witness: a pass of two add-batches and three remove-batches, with no other
\* writer, left the desired set on the list
C18_Witness ==
    /\ ad.pc = "returned" /\ writes = 0 /\ aws[ad.fam].OwnerId = ad.account_owner
    /\ Len(ad.add_batches) = 2 /\ Len(ad.rem_batches) = 3
    /\ ad.have # Want /\ aws[ad.fam].Entries = Want

\* C19: in a pass with no other writer, after each successful modify call the
\* list holds at most max(entries read at the start, |desired|) entries; so when
\* both are within the list's MaxEntries, the list is within it after every call.
C19_CountBounded ==
    writes = 0 =>
       /\ \A i \in OkIdx :
             /\ log[i].n <= Max2(Cardinality(ad.have), Cardinality(Want))
             /\ (Cardinality(ad.have) <= aws[ad.fam].MaxEntries
                  /\ Cardinality(Want) <= aws[ad.fam].MaxEntries)
                   => log[i].n <= aws[ad.fam].MaxEntries
       /\ OkIdx # {} => Cardinality(aws[ad.fam].Entries) = log[Max(OkIdx)].n

\* C19 witness: with no other writer, three calls were applied; the first one
\* added and removed a full batch and left the list at its initial size
C19_Witness ==
    /\ writes = 0 /\ Cardinality(OkIdx) = 3
    /\ \E i \in OkIdx :
          /\ Len(log[i].add) = MAX_BATCH /\ Len(log[i].rem) = MAX_BATCH
          /\ log[i].n = Cardinality(ad.have)
    /\ Cardinality(aws[ad.fam].Entries) < Cardinality(ad.have)

====
